---- MODULE Spec2Model ----
(***************************************************************************)
(* Message synchronisation engine of the chat front-end: the evolved       *)
(* MessagesProvider (src/unnamed/part_001, lines 1-218).  Every handler     *)
(* body runs to completion on the single-threaded event loop and is one    *)
(* action; the only suspension point is the awaited store query inside     *)
(* fetchMessages.                                                          *)
(*                                                                         *)
(* Spec starts with one provider instance mounted: its effect has run, so  *)
(* the realtime channel and the recovery listeners exist, and no provider  *)
(* is mounted or unmounted afterwards.  MountSpec starts before the first  *)
(* mount and lets provider instances mount and unmount.  In both, messages,*)
(* loading, error, contactId and fetches are the state of the provider     *)
(* instance that mounts first.  SharedSpec adds what the instances mounted *)
(* after the first do with their own contact id and list, and the realtime *)
(* events that arrive on the shared channel.  ConvergeSpec adds the remote *)
(* store from the moment its content for the active conversation is final. *)
(***************************************************************************)
EXTENDS Integers, Sequences, FiniteSets, TLC

\* ------------------------------------------------------------------ bounds
MaxLen == 2        \* longest in-memory list the model lets grow
MaxInflight == 2   \* store queries that may be awaiting their answer at once
MaxMounts == 2     \* provider instances mounted over the life of the page
MaxLate == 1       \* change events still undelivered when the store settles

\* ------------------------------------------------------------ value model
\* JS null/undefined of a string-valued field, and of the status field that
\* rows of the remote table do not carry.
NullS == "<null>"
NoStatus == "<undefined>"
\* Party identifiers are inspected by a regular expression, so they are
\* sequences of characters; the null party is a one-element sequence that is
\* no character.
NullParty == << "<null>" >>
EmptyParty == << >>
Undefined == << "<undefined>" >>
Contact555 == << "5", "5", "5" >>
Contact777 == << "7", "7", "7" >>
Business == << "b", "i", "z" >>
Contacts == {Contact555, Contact777}
Digits == {"0", "1", "2", "3", "4", "5", "6", "7", "8", "9"}

\* created_at is an ISO string; the model keeps the instant it denotes, tagged.
NoTime == << >>
ToISOString(t) == << "iso", t >>
InstantOf(c) == c[2]

\* JS truthiness of a string value (null, undefined and "" are falsy).
TruthyStr(s) == s # NullS /\ s # ""
TruthyParty(p) == p # NullParty /\ p # EmptyParty /\ p # Undefined

\* /^\d+$/.test(s)
IsNumeric(s) == Len(s) > 0 /\ \A i \in 1..Len(s) : s[i] \in Digits

\* Rows of the remote table, as a query returns them and as a change event
\* carries them: two identifiers, with or without an external id, and three
\* kinds of traffic: sent to 555 at instant 1, sent by 777 to 555 at instant 2,
\* received from 777 at instant 1.
Ids == {1, 2}
RowMids == {NullS, "a"}
Traffic == {<<Business, Contact555, 1>>, <<Contact777, Contact555, 2>>,
            <<Contact777, Business, 1>>}

Row(id, mid, k) ==
    [id |-> id, type |-> "text", from |-> k[1], to |-> k[2], text |-> "hi",
     media_url |-> NullS, is_reply |-> NullS, reply_to_mid |-> NullS,
     mid |-> mid, created_at |-> ToISOString(k[3]), status |-> NoStatus]

Rows == {Row(i, m, k) : i \in Ids, m \in RowMids, k \in Traffic}

\* Values Date.now() returns; none is a row identifier.
Clock == {3, 4}

\* What the caller hands to addOptimisticMessage: a Partial<WhatsAppMessage>.
\* id 0 and the empty type, mid and created_at are the falsy/absent inputs.
\* The caller either leaves id, type and created_at out (a message typed in
\* the composer) or supplies the three (a record it already holds).
Partial(mid, k) ==
    [id |-> k[1], type |-> k[2], from |-> Business, to |-> Contact555, text |-> "hi",
     media_url |-> NullS, is_reply |-> NullS, reply_to_mid |-> NullS,
     mid |-> mid, created_at |-> k[3]]

Partials == {Partial(m, k) : m \in {NullS, "", "a"},
                             k \in {<<0, NullS, NoTime>>, <<1, "image", ToISOString(1)>>}}

\* What the awaited query can fail with: a thrown Error (network), or the
\* store's error object, which is no Error instance.
Failures == {[isError |-> TRUE, message |-> "Failed to fetch"],
             [isError |-> TRUE, message |-> ""],
             [isError |-> FALSE, message |-> "permission denied"]}

\* ------------------------------------------------------------------ state
VARIABLES
    messages,    \* useState<WhatsAppMessage[]>: the in-memory list
    loading,     \* useState(false)
    error,       \* useState<string | null>
    contactId,   \* contactIdRef.current
    fetches,     \* awaited store queries of fetchMessages: how many per id
    sharedChannel,  \* module-level sharedChannel: NoInstance for null, else the
                    \* instance whose effect created it (whose refs its handler holds)
    fetchRef,       \* module-level fetchRef: NoInstance for null, else the instance
                    \* whose fetchMessagesRef it calls
    mounted,        \* instances whose effect has run and whose cleanup has not
    instances,      \* how many provider instances have mounted so far
    channels,       \* how many times supabase.channel(...).subscribe(...) ran
    peers,          \* per instance mounted after the first: its contactIdRef,
                    \* its list and its awaited queries
    settled,        \* the remote table's rows of the active conversation have
                    \* stopped changing and the user has stopped acting
    store,          \* once settled: what the query for the active conversation
                    \* returns from then on
    stale,          \* once settled: per id, the awaited queries sent before
    late            \* once settled: change events sent before, not yet delivered

\* The remote store as ConvergeSpec sees it.
environment == <<settled, store, stale, late>>

\* The module-level variables, the effects' registrations, the state of the
\* instances mounted after the first, and the environment.
lifecycle ==
    <<sharedChannel, fetchRef, mounted, instances, channels, peers, environment>>

vars == <<messages, loading, error, contactId, fetches, lifecycle>>

\* null of sharedChannel and fetchRef; instances are numbered from 1 in the
\* order they mount, and Owner is the first.
NoInstance == 0
Owner == 1

\* The instances that mount after the first, and the state each starts in:
\* useRef(null), useState([]), no query sent.
Peers == 2..MaxMounts
PeerInit ==
    [contactId |-> NullParty, messages |-> << >>, fetches |-> [c \in Contacts |-> 0]]

InFlight == fetches[Contact555] + fetches[Contact777]

\* ---------------------------------------------------------- remote store
\* .or(`from.eq.${id},to.eq.${id}`)
FetchFilter(id, m) == m.from = id \/ m.to = id

\* .order('created_at', { ascending: true })
IsAscending(s) ==
    \A i, j \in 1..Len(s) :
        i < j => InstantOf(s[i].created_at) <= InstantOf(s[j].created_at)

\* The answers the store can give to the query for id, whatever the table
\* holds when it evaluates the query: rows that match, no identifier twice
\* (id is the primary key), no external id twice (one row per WhatsApp
\* message), in ascending creation order (rows of equal instant in either
\* order).
QueryResults(id) ==
    LET hit == {r \in Rows : FetchFilter(id, r)}
    IN UNION {{s \in [1..n -> hit] :
                  /\ \A i, j \in 1..n : i # j => s[i].id # s[j].id
                  /\ \A i, j \in 1..n :
                        (i # j /\ TruthyStr(s[i].mid)) => s[i].mid # s[j].mid
                  /\ IsAscending(s)} : n \in 0..Cardinality(Ids)}

\* The same, tabulated once per conversation.
Snapshots == [c \in Contacts |-> QueryResults(c)]

Init ==
    /\ messages = << >>
    /\ loading = FALSE
    /\ error = NullS
    /\ contactId = NullParty
    /\ fetches = [c \in Contacts |-> 0]
    /\ sharedChannel = Owner
    /\ fetchRef = Owner
    /\ mounted = {Owner}
    /\ instances = 1
    /\ channels = 1
    /\ peers = [i \in Peers |-> PeerInit]
    /\ settled = FALSE
    /\ store = << >>
    /\ stale = [c \in Contacts |-> 0]
    /\ late = 0

\* ----------------------------------------------------------- fetchMessages
\* const id = forContactId !== undefined ? forContactId : contactIdRef.current
FetchId(forContactId, current) ==
    IF forContactId # Undefined THEN forContactId ELSE current

\* Mutant: fetchMessages calls setLoading(true) before the query.
LoadingSetAtFetchStart(before) == TRUE

\* The loading flag after the synchronous part of a fetch that goes to the
\* store: fetchMessages does not call setLoading(true).
LoadingAtFetchStart(before) == before

\* Mutant: with no id, fetchMessages returns without clearing anything.
FetchCallReturningEarly(forContactId, current, msgs0, loading0) ==
    LET id == FetchId(forContactId, current)
    IN IF ~TruthyParty(id)
       THEN /\ messages' = msgs0
            /\ loading' = loading0
            /\ UNCHANGED <<error, fetches>>
       ELSE /\ InFlight < MaxInflight
            /\ messages' = msgs0
            /\ loading' = LoadingAtFetchStart(loading0)
            /\ error' = NullS
            /\ fetches' = [fetches EXCEPT ![id] = @ + 1]

\* fetchMessages up to its await.  msgs0 and loading0 are the list and the flag
\* as the caller left them; current is contactIdRef.current at the call.
FetchCall(forContactId, current, msgs0, loading0) ==
    LET id == FetchId(forContactId, current)
    IN IF ~TruthyParty(id)
       THEN /\ messages' = << >>
            /\ loading' = FALSE
            /\ UNCHANGED <<error, fetches>>
       ELSE /\ InFlight < MaxInflight
            /\ messages' = msgs0
            /\ loading' = LoadingAtFetchStart(loading0)
            /\ error' = NullS
            /\ fetches' = [fetches EXCEPT ![id] = @ + 1]

\* Mutant: the fetched rows are put behind the entries already shown.
ListMergedAfterFetch(prev, data) == IF prev = << >> THEN data ELSE prev

\* The list after a successful fetch: setMessagesRef.current(data ?? [])
ListAfterFetch(prev, data) == data

\* The await of a query for id resumes with data: the try block ends, then
\* finally.
FetchSucceed(id, data) ==
    /\ Owner \in mounted
    /\ fetches[id] > 0
    /\ data \in Snapshots[id]
    /\ messages' = ListAfterFetch(messages, data)
    /\ loading' = FALSE
    /\ fetches' = [fetches EXCEPT ![id] = @ - 1]
    /\ UNCHANGED <<error, contactId, lifecycle>>

\* err instanceof Error ? err.message : 'Unknown error'
ErrorText(e) == IF e.isError THEN e.message ELSE "Unknown error"

\* Mutant: the catch block clears the list.
ListClearedAfterFailure(prev) == << >>

\* The list after a failed fetch: the catch block does not touch it.
ListAfterFailure(prev) == prev

\* The await throws, or resumes with fetchError: catch, then finally.
FetchFail(id, e) ==
    /\ Owner \in mounted
    /\ fetches[id] > 0
    /\ messages' = ListAfterFailure(messages)
    /\ error' = ErrorText(e)
    /\ loading' = FALSE
    /\ fetches' = [fetches EXCEPT ![id] = @ - 1]
    /\ UNCHANGED <<contactId, lifecycle>>

\* ------------------------------------------------------------ setContactId
\* Mutant: setContactId does not clear the list before fetching.
SetContactIdKeepingList(id) ==
    /\ Owner \in mounted
    /\ contactId' = id
    /\ FetchCall(id, id, messages, TRUE)
    /\ UNCHANGED lifecycle

\* contactIdRef.current = id; setMessages([]); setLoading(true);
\* fetchMessages(id).  A consumer calls it while the provider is mounted.
SetContactId(id) ==
    /\ Owner \in mounted
    /\ contactId' = id
    /\ FetchCall(id, id, << >>, TRUE)
    /\ UNCHANGED lifecycle

\* ----------------------------------------------------- addOptimisticMessage
\* Mutant: the type is taken from the partial message as it is.
NewMsgWithoutDefaultType(p, t) ==
    [id |-> IF p.id # 0 THEN p.id ELSE t,
     type |-> p.type,
     from |-> p.from, to |-> p.to, text |-> p.text,
     media_url |-> p.media_url, is_reply |-> p.is_reply,
     reply_to_mid |-> p.reply_to_mid, mid |-> p.mid,
     created_at |-> IF p.created_at # NoTime THEN p.created_at ELSE ToISOString(t),
     status |-> "sending"]

\* The record built from the partial message, at clock value t.
NewMsg(p, t) ==
    [id |-> IF p.id # 0 THEN p.id ELSE t,
     type |-> IF TruthyStr(p.type) THEN p.type ELSE "text",
     from |-> p.from, to |-> p.to, text |-> p.text,
     media_url |-> p.media_url, is_reply |-> p.is_reply,
     reply_to_mid |-> p.reply_to_mid, mid |-> p.mid,
     created_at |-> IF p.created_at # NoTime THEN p.created_at ELSE ToISOString(t),
     status |-> "sending"]

\* Mutant: entries are compared by identifier alone.
SameIdentifier(m, n) == m.id = n.id

\* m.id === newMsg.id || (m.mid && newMsg.mid && m.mid === newMsg.mid)
SameMessage(m, n) ==
    m.id = n.id \/ (TruthyStr(m.mid) /\ TruthyStr(n.mid) /\ m.mid = n.mid)

\* The updater handed to setMessages.
OptimisticUpdate(prev, newMsg) ==
    IF \E i \in 1..Len(prev) : SameMessage(prev[i], newMsg)
    THEN prev
    ELSE Append(prev, newMsg)

\* t is what Date.now() and new Date() read during the call.
\* return newMsg
AddOptimisticReturn(p, t) == NewMsg(p, t)

AddOptimisticMessage(p, t) ==
    LET newMsg == NewMsg(p, t)
    IN /\ Owner \in mounted
       /\ Len(OptimisticUpdate(messages, newMsg)) <= MaxLen
       /\ messages' = OptimisticUpdate(messages, newMsg)
       /\ UNCHANGED <<loading, error, contactId, fetches, lifecycle>>

\* ------------------------------------------------- realtime channel handler
\* newMsg.from && /^\d+$/.test(newMsg.from) ? newMsg.from : newMsg.to
MsgContact(m) ==
    IF TruthyParty(m.from) /\ IsNumeric(m.from) THEN m.from ELSE m.to

Sent(m) == [m EXCEPT !.status = "sent"]

Matches(prev, newMsg) == {i \in 1..Len(prev) : SameMessage(prev[i], newMsg)}

\* Mutant: the last matching entry is taken (findLastIndex).
FindLastIndex(prev, newMsg) ==
    IF Matches(prev, newMsg) = {} THEN 0
    ELSE CHOOSE i \in Matches(prev, newMsg) : \A j \in Matches(prev, newMsg) : i >= j

\* prev.findIndex(...), 0 standing for -1
FindIndex(prev, newMsg) ==
    IF Matches(prev, newMsg) = {} THEN 0
    ELSE CHOOSE i \in Matches(prev, newMsg) : \A j \in Matches(prev, newMsg) : i <= j

\* The updater of the INSERT branch.
InsertUpdate(prev, newMsg) ==
    LET existingIndex == FindIndex(prev, newMsg)
    IN IF existingIndex # 0
       THEN [prev EXCEPT ![existingIndex] = Sent(newMsg)]
       ELSE Append(prev, Sent(newMsg))

\* Mutant: the UPDATE branch matches as the INSERT branch does, by identifier
\* or external id.
UpdateUpdateByMid(prev, updatedMsg) ==
    [i \in 1..Len(prev) |->
        IF SameMessage(prev[i], updatedMsg) THEN Sent(updatedMsg) ELSE prev[i]]

\* The updater of the UPDATE branch.
UpdateUpdate(prev, updatedMsg) ==
    [i \in 1..Len(prev) |->
        IF prev[i].id = updatedMsg.id THEN Sent(updatedMsg) ELSE prev[i]]

RECURSIVE Filter(_, _)
\* prev.filter((m) => m.id !== deletedId)
Filter(prev, deletedId) ==
    IF prev = << >> THEN << >>
    ELSE IF Head(prev).id # deletedId
         THEN << Head(prev) >> \o Filter(Tail(prev), deletedId)
         ELSE Filter(Tail(prev), deletedId)

\* Mutant: the handler runs without the test of currentId.
HandlerResultWhileIdle(prev, currentId, eventType, new, oldId) ==
    IF eventType = "INSERT"
    THEN IF MsgContact(new) # currentId THEN prev ELSE InsertUpdate(prev, new)
    ELSE IF eventType = "UPDATE"
         THEN IF MsgContact(new) # currentId THEN prev ELSE UpdateUpdate(prev, new)
    ELSE IF eventType = "DELETE"
         THEN Filter(prev, oldId)
    ELSE prev

\* What the handler does to the list for one payload.
HandlerResult(prev, currentId, eventType, new, oldId) ==
    IF ~TruthyParty(currentId) THEN prev
    ELSE IF eventType = "INSERT"
         THEN IF MsgContact(new) # currentId THEN prev ELSE InsertUpdate(prev, new)
    ELSE IF eventType = "UPDATE"
         THEN IF MsgContact(new) # currentId THEN prev ELSE UpdateUpdate(prev, new)
    ELSE IF eventType = "DELETE"
         THEN Filter(prev, oldId)
    ELSE prev

\* Mutant: the handler uses the contact id as it was when the channel was
\* created (null: the effect runs at mount) instead of reading the ref.
RealtimeInsertForCreationId(r) ==
    /\ sharedChannel = Owner /\ Owner \in mounted
    /\ Len(HandlerResult(messages, NullParty, "INSERT", r, r.id)) <= MaxLen
    /\ messages' = HandlerResult(messages, NullParty, "INSERT", r, r.id)
    /\ UNCHANGED <<loading, error, contactId, fetches, lifecycle>>

\* The channel's handler holds contactIdRef and setMessagesRef of the instance
\* that created the channel; a state update of an unmounted instance is lost.
RealtimeInsert(r) ==
    /\ sharedChannel = Owner /\ Owner \in mounted
    /\ Len(HandlerResult(messages, contactId, "INSERT", r, r.id)) <= MaxLen
    /\ messages' = HandlerResult(messages, contactId, "INSERT", r, r.id)
    /\ UNCHANGED <<loading, error, contactId, fetches, lifecycle>>

RealtimeUpdate(r) ==
    /\ sharedChannel = Owner /\ Owner \in mounted
    /\ messages' = HandlerResult(messages, contactId, "UPDATE", r, r.id)
    /\ UNCHANGED <<loading, error, contactId, fetches, lifecycle>>

RealtimeDelete(id) ==
    /\ sharedChannel = Owner /\ Owner \in mounted
    /\ messages' = HandlerResult(messages, contactId, "DELETE", [id |-> id], id)
    /\ UNCHANGED <<loading, error, contactId, fetches, lifecycle>>

\* -------------------------------------------------------- recovery triggers
\* Mutant: the callbacks fetch for the contact id read when they were
\* registered (null, at mount) instead of reading the ref when they run.
BackgroundFetchForRegisteredId ==
    /\ Owner \in mounted
    /\ FetchCall(NullParty, contactId, messages, loading)
    /\ UNCHANGED <<contactId, lifecycle>>

\* fetchMessagesRef.current(): a fetch with no argument.  The listeners and
\* the timer that call it exist from the effect to its cleanup.
BackgroundFetch ==
    /\ Owner \in mounted
    /\ FetchCall(Undefined, contactId, messages, loading)
    /\ UNCHANGED <<contactId, lifecycle>>

\* document 'visibilitychange', with the visibility the document then has.
OnVisibilityChange(visibilityState) ==
    /\ IF visibilityState = "visible" THEN BackgroundFetch ELSE UNCHANGED vars

\* window 'online'
OnOnline ==
    /\ BackgroundFetch

\* Mutant: the timer runs only while the spinner is shown.
SafetyPollWhileLoading ==
    /\ loading
    /\ BackgroundFetch

\* Mutant: the timer is cleared once a fetch has failed.
SafetyPollUntilFailure ==
    /\ error = NullS
    /\ BackgroundFetch

\* the setInterval callback
SafetyPoll ==
    /\ BackgroundFetch

\* refetch of the context value, called by a consumer
Refetch ==
    /\ BackgroundFetch

\* fetchMessages run through a reference to it after React unmounted the
\* instance: the ref still holds the contact id and the query is sent, the
\* setMessages, setLoading and setError calls are dropped.
FetchByUnmounted ==
    /\ Owner \notin mounted
    /\ IF TruthyParty(contactId)
       THEN /\ InFlight < MaxInflight
            /\ fetches' = [fetches EXCEPT ![contactId] = @ + 1]
       ELSE UNCHANGED fetches
    /\ UNCHANGED <<messages, loading, error, contactId, lifecycle>>

\* ------------------------------------------------------- later instances
\* Of an instance mounted after the first the model keeps contactIdRef, the
\* list and the awaited queries; its loading and error flags are left out.
RECURSIVE PeersInFlight(_)
PeersInFlight(i) ==
    IF i \notin Peers THEN 0
    ELSE peers[i].fetches[Contact555] + peers[i].fetches[Contact777]
         + PeersInFlight(i - 1)

\* fetchMessages of instance i up to its await, the instance's ref holding
\* current and its list being msgs0 at the call; a setMessages of an
\* unmounted instance is dropped.
PeerFetchCall(i, forContactId, current, msgs0) ==
    LET id == FetchId(forContactId, current)
    IN IF ~TruthyParty(id)
       THEN peers' = [peers EXCEPT ![i] =
                [contactId |-> current,
                 messages |-> IF i \in mounted THEN << >> ELSE msgs0,
                 fetches |-> peers[i].fetches]]
       ELSE /\ InFlight + PeersInFlight(MaxMounts) < MaxInflight
            /\ peers' = [peers EXCEPT ![i] =
                [contactId |-> current,
                 messages |-> msgs0,
                 fetches |-> [peers[i].fetches EXCEPT ![id] = @ + 1]]]

\* setContactId of instance i, called by a consumer below it.
PeerSetContactId(i, id) ==
    /\ i \in Peers /\ i \in mounted
    /\ PeerFetchCall(i, id, id, << >>)
    /\ UNCHANGED <<messages, loading, error, contactId, fetches>>
    /\ UNCHANGED <<sharedChannel, fetchRef, mounted, instances, channels>>
    /\ UNCHANGED environment

\* fetchMessagesRef.current() of instance i.
PeerBackgroundFetch(i) ==
    /\ i \in Peers
    /\ PeerFetchCall(i, Undefined, peers[i].contactId, peers[i].messages)
    /\ UNCHANGED <<messages, loading, error, contactId, fetches>>
    /\ UNCHANGED <<sharedChannel, fetchRef, mounted, instances, channels>>
    /\ UNCHANGED environment

\* The awaited query of instance i for id resumes with data.
PeerFetchSucceed(i, id, data) ==
    /\ i \in Peers
    /\ peers[i].fetches[id] > 0
    /\ data \in Snapshots[id]
    /\ peers' = [peers EXCEPT ![i] =
            [contactId |-> peers[i].contactId,
             messages |-> IF i \in mounted
                          THEN ListAfterFetch(peers[i].messages, data)
                          ELSE peers[i].messages,
             fetches |-> [peers[i].fetches EXCEPT ![id] = @ - 1]]]
    /\ UNCHANGED <<messages, loading, error, contactId, fetches>>
    /\ UNCHANGED <<sharedChannel, fetchRef, mounted, instances, channels>>
    /\ UNCHANGED environment

\* The awaited query of instance i for id fails: the list is left as it is.
PeerFetchFail(i, id) ==
    /\ i \in Peers
    /\ peers[i].fetches[id] > 0
    /\ peers' = [peers EXCEPT ![i] =
            [contactId |-> peers[i].contactId,
             messages |-> ListAfterFailure(peers[i].messages),
             fetches |-> [peers[i].fetches EXCEPT ![id] = @ - 1]]]
    /\ UNCHANGED <<messages, loading, error, contactId, fetches>>
    /\ UNCHANGED <<sharedChannel, fetchRef, mounted, instances, channels>>
    /\ UNCHANGED environment

\* the callback handed to subscribe(): fetchRef?.() on 'SUBSCRIBED'.  fetchRef
\* calls fetchMessagesRef.current() of the instance whose effect ran last.
OnChannelStatus(status) ==
    /\ sharedChannel # NoInstance
    /\ IF status = "SUBSCRIBED"
       THEN IF fetchRef = Owner
            THEN BackgroundFetch \/ FetchByUnmounted
            ELSE PeerBackgroundFetch(fetchRef)
       ELSE UNCHANGED vars

\* The awaited query of an unmounted instance resumes: its state updates are
\* dropped.
FetchDropped(id) ==
    /\ Owner \notin mounted
    /\ fetches[id] > 0
    /\ fetches' = [fetches EXCEPT ![id] = @ - 1]
    /\ UNCHANGED <<messages, loading, error, contactId, lifecycle>>

\* ------------------------------------------------------ mount and unmount
\* Mutant: the effect creates a channel whether or not one exists.
CreatesChannelAlways(channel) == TRUE

\* if (!sharedChannel)
CreatesChannel(channel) == channel = NoInstance

\* A provider instance mounts and its effect runs: fetchRef is pointed at it,
\* the channel is created and subscribed if there is none, the listeners and
\* the poll timer are registered.  The instance starts in the state of Init.
Mount ==
    LET i == instances + 1
    IN /\ instances < MaxMounts
       /\ instances' = i
       /\ fetchRef' = i
       /\ IF CreatesChannel(sharedChannel)
          THEN sharedChannel' = i /\ channels' = channels + 1
          ELSE UNCHANGED <<sharedChannel, channels>>
       /\ mounted' = mounted \cup {i}
       /\ UNCHANGED <<messages, loading, error, contactId, fetches, peers>>
       /\ UNCHANGED environment

\* The effect's cleanup: the listeners and the timer are removed; sharedChannel
\* and fetchRef are left as they are.
Unmount(i) ==
    /\ i \in mounted
    /\ mounted' = mounted \ {i}
    /\ UNCHANGED <<messages, loading, error, contactId, fetches>>
    /\ UNCHANGED <<sharedChannel, fetchRef, instances, channels, peers>>
    /\ UNCHANGED environment

\* -------------------------------------------------------------------- spec
SelectInputs == Contacts \cup {NullParty, EmptyParty}
DeleteIds == Ids \cup Clock

Next ==
    \/ \E id \in SelectInputs : SetContactId(id)
    \/ \E p \in Partials, t \in Clock : AddOptimisticMessage(p, t)
    \/ \E r \in Rows : RealtimeInsert(r)
    \/ \E r \in Rows : RealtimeUpdate(r)
    \/ \E id \in DeleteIds : RealtimeDelete(id)
    \/ \E v \in {"visible", "hidden"} : OnVisibilityChange(v)
    \/ OnOnline
    \/ SafetyPoll
    \/ Refetch
    \/ \E st \in {"SUBSCRIBED", "CHANNEL_ERROR"} : OnChannelStatus(st)
    \/ \E id \in Contacts : \E data \in Snapshots[id] : FetchSucceed(id, data)
    \/ \E id \in Contacts, e \in Failures : FetchFail(id, e)

Spec == Init /\ [][Next]_vars

\* setInterval keeps calling safetyPoll every 30 s while the provider is
\* mounted: the poll cannot be postponed for ever.
PollSpec == Init /\ [][Next]_vars /\ WF_vars(SafetyPoll)

\* The page before any provider has mounted.
MountInit ==
    /\ messages = << >>
    /\ loading = FALSE
    /\ error = NullS
    /\ contactId = NullParty
    /\ fetches = [c \in Contacts |-> 0]
    /\ sharedChannel = NoInstance
    /\ fetchRef = NoInstance
    /\ mounted = {}
    /\ instances = 0
    /\ channels = 0
    /\ peers = [i \in Peers |-> PeerInit]
    /\ settled = FALSE
    /\ store = << >>
    /\ stale = [c \in Contacts |-> 0]
    /\ late = 0

\* Providers mount and unmount while conversations are selected, the recovery
\* triggers fire and queries are answered.
MountNext ==
    \/ Mount
    \/ \E i \in 1..MaxMounts : Unmount(i)
    \/ \E id \in SelectInputs : SetContactId(id)
    \/ \E v \in {"visible", "hidden"} : OnVisibilityChange(v)
    \/ OnOnline
    \/ SafetyPoll
    \/ \E st \in {"SUBSCRIBED", "CHANNEL_ERROR"} : OnChannelStatus(st)
    \/ \E id \in Contacts : \E data \in Snapshots[id] : FetchSucceed(id, data)
    \/ \E id \in Contacts, e \in Failures : FetchFail(id, e)
    \/ \E id \in Contacts : FetchDropped(id)

MountSpec == MountInit /\ [][MountNext]_vars

\* The rows SharedSpec stores: one identifier, no external id, each kind of
\* traffic; and the answers made of them.
SharedRows == {Row(1, NullS, k) : k \in Traffic}
SharedSnapshots ==
    [c \in Contacts |->
        {s \in Snapshots[c] : \A i \in 1..Len(s) : s[i] \in SharedRows}]

\* Two provider instances share the channel: each selects conversations and
\* fetches, and realtime INSERT events arrive.
SharedNext ==
    \/ Mount
    \/ \E i \in 1..MaxMounts : Unmount(i)
    \/ \E id \in SelectInputs : SetContactId(id)
    \/ \E i \in Peers, id \in SelectInputs : PeerSetContactId(i, id)
    \/ \E r \in SharedRows : RealtimeInsert(r)
    \/ \E st \in {"SUBSCRIBED", "CHANNEL_ERROR"} : OnChannelStatus(st)
    \/ \E id \in Contacts : \E data \in SharedSnapshots[id] : FetchSucceed(id, data)
    \/ \E id \in Contacts, e \in Failures : FetchFail(id, e)
    \/ \E id \in Contacts : FetchDropped(id)
    \/ \E i \in Peers, id \in Contacts : \E data \in SharedSnapshots[id] :
          PeerFetchSucceed(i, id, data)
    \/ \E i \in Peers, id \in Contacts : PeerFetchFail(i, id)

SharedSpec == MountInit /\ [][SharedNext]_vars

\* ------------------------------------------------------- the store settles
\* The rows ConvergeSpec stores (no external id), and the answers made of
\* them.
ConvergeRows == {r \in Rows : r.mid = NullS}
ConvergeSnapshots ==
    [c \in Contacts |->
        {s \in Snapshots[c] : \A i \in 1..Len(s) : s[i] \in ConvergeRows}]

\* The last change to the rows of the active conversation has been made and
\* the user makes no further select or submit: final is what the query for
\* the active conversation returns from now on; the queries awaited at this
\* moment were sent before, and undelivered change events are still under
\* way.
Settle(final, undelivered) ==
    /\ ~settled
    /\ Owner \in mounted
    /\ contactId \in Contacts
    /\ final \in Snapshots[contactId]
    /\ settled' = TRUE
    /\ store' = final
    /\ stale' = fetches
    /\ late' = undelivered
    /\ UNCHANGED <<messages, loading, error, contactId, fetches>>
    /\ UNCHANGED <<sharedChannel, fetchRef, mounted, instances, channels, peers>>

\* A query sent after the store settled resumes: its answer is the store's.
FreshFetchSucceed ==
    /\ settled
    /\ contactId \in Contacts
    /\ fetches[contactId] > stale[contactId]
    /\ FetchSucceed(contactId, store)

\* A query sent before the store settled resumes after it, with whatever
\* the table held when the store evaluated it: lines 57-58 and 63.
StaleFetchSucceed(id, data) ==
    /\ settled
    /\ Owner \in mounted
    /\ stale[id] > 0
    /\ fetches[id] > 0
    /\ data \in Snapshots[id]
    /\ messages' = ListAfterFetch(messages, data)
    /\ loading' = FALSE
    /\ fetches' = [fetches EXCEPT ![id] = @ - 1]
    /\ stale' = [stale EXCEPT ![id] = @ - 1]
    /\ UNCHANGED <<error, contactId, settled, store, late>>
    /\ UNCHANGED <<sharedChannel, fetchRef, mounted, instances, channels, peers>>

\* A change event sent before the store settled is delivered after it: the
\* channel's handler runs on it.
LateEvent(eventType, r) ==
    /\ settled
    /\ late > 0
    /\ sharedChannel = Owner /\ Owner \in mounted
    /\ Len(HandlerResult(messages, contactId, eventType, r, r.id)) <= MaxLen
    /\ messages' = HandlerResult(messages, contactId, eventType, r, r.id)
    /\ late' = late - 1
    /\ UNCHANGED <<loading, error, contactId, fetches, settled, store, stale>>
    /\ UNCHANGED <<sharedChannel, fetchRef, mounted, instances, channels, peers>>

\* Until the store settles the provider runs as in Spec; afterwards only the
\* recovery triggers fire, awaited queries resume with an answer and late
\* events are delivered.
ConvergeNext ==
    \/ ~settled /\ \E id \in SelectInputs : SetContactId(id)
    \/ ~settled /\ \E p \in Partials, t \in Clock : AddOptimisticMessage(p, t)
    \/ ~settled /\ \E r \in ConvergeRows : RealtimeInsert(r)
    \/ ~settled /\ \E r \in ConvergeRows : RealtimeUpdate(r)
    \/ ~settled /\ \E id \in DeleteIds : RealtimeDelete(id)
    \/ ~settled /\ \E id \in Contacts : \E data \in ConvergeSnapshots[id] :
                      FetchSucceed(id, data)
    \/ ~settled /\ \E id \in Contacts, e \in Failures : FetchFail(id, e)
    \/ \E c \in Contacts : \E final \in ConvergeSnapshots[c], n \in 0..MaxLate :
          contactId = c /\ Settle(final, n)
    \/ \E v \in {"visible", "hidden"} : OnVisibilityChange(v)
    \/ OnOnline
    \/ SafetyPoll
    \/ Refetch
    \/ \E st \in {"SUBSCRIBED", "CHANNEL_ERROR"} : OnChannelStatus(st)
    \/ FreshFetchSucceed
    \/ \E id \in Contacts : \E data \in ConvergeSnapshots[id] :
          StaleFetchSucceed(id, data)
    \/ \E ev \in {"INSERT", "UPDATE", "DELETE"}, r \in ConvergeRows : LateEvent(ev, r)

\* The poll timer keeps firing, and an awaited query is answered in the end.
ConvergeSpec ==
    /\ Init
    /\ [][ConvergeNext]_vars
    /\ WF_vars(SafetyPoll)
    /\ WF_vars(FreshFetchSucceed)
    /\ WF_vars(\E id \in Contacts : \E data \in ConvergeSnapshots[id] :
                  StaleFetchSucceed(id, data))

\* ------------------------------------------------------------------ claims
\* C1: no two entries of the in-memory list have the same identifier.
UniqueIds ==
    \A i, j \in 1..Len(messages) : i # j => messages[i].id # messages[j].id

\* C2: no two entries of the in-memory list have the same non-empty external
\* message identifier.
UniqueMids ==
    \A i, j \in 1..Len(messages) :
        (i # j /\ messages[i].mid \notin {NullS, ""}) => messages[i].mid # messages[j].mid

\* An INSERT event carrying r is for the entry e: same identifier, or same
\* non-empty external id.
EventIsFor(r, e) ==
    r.id = e.id \/ (r.mid \notin {NullS, ""} /\ r.mid = e.mid)

\* C3: when an INSERT event of the active conversation arrives for an entry
\* that submitOptimistic appended (status 'sending'), the list afterwards keeps
\* its length and holds exactly one entry for that message: the event's
\* message, with status 'sent', at the position the optimistic entry had.
OptimisticReconciled ==
    [][\A r \in Rows : \A k \in 1..Len(messages) :
          ( /\ RealtimeInsert(r)
            /\ contactId \in Contacts
            /\ MsgContact(r) = contactId
            /\ messages[k].status = "sending"
            /\ EventIsFor(r, messages[k]) )
          => /\ Len(messages') = Len(messages)
             /\ messages'[k] = [r EXCEPT !.status = "sent"]
             /\ \A i \in 1..Len(messages') :
                    EventIsFor(r, messages'[i]) => i = k]_vars

\* C4: select(id) with a non-null id records id, empties the list, sets
\* loading and issues one fetch for id, all in the one step.
SelectClearsAndFetches ==
    [][\A id \in Contacts :
          SetContactId(id)
          => /\ contactId' = id
             /\ messages' = << >>
             /\ loading' = TRUE
             /\ fetches'[id] = fetches[id] + 1
             /\ \A c \in Contacts \ {id} : fetches'[c] = fetches[c]]_vars

\* C4 witness: 777 was selected while the fetch of 555 was still awaited; the
\* list is empty and both fetches are pending.
SelectedWhilePending ==
    /\ contactId = Contact777
    /\ messages = << >>
    /\ loading
    /\ fetches[Contact555] > 0
    /\ fetches[Contact777] > 0

\* C5: with no active conversation a fetch, and select(null), issue no query
\* and end with the list empty and loading false.
NoConversationClears ==
    [][ /\ ( /\ contactId \in {NullParty, EmptyParty}
             /\ \/ OnOnline
                \/ SafetyPoll
                \/ Refetch
                \/ OnVisibilityChange("visible")
                \/ OnChannelStatus("SUBSCRIBED") )
           => (messages' = << >> /\ loading' = FALSE /\ fetches' = fetches)
        /\ \A id \in {NullParty, EmptyParty} :
               SetContactId(id)
               => (messages' = << >> /\ loading' = FALSE /\ fetches' = fetches)]_vars

\* C5 witness: the conversation was closed while a fetch was awaited (loading
\* was true); the list is empty, loading is false, nothing new was issued.
ClosedWhilePending ==
    /\ contactId = NullParty
    /\ messages = << >>
    /\ ~loading
    /\ InFlight = 1

\* C6: a fetch that succeeds replaces the whole list by the answer to the
\* query for the id it was issued with (rows with from = id or to = id, in
\* ascending creation order) and clears loading.
FetchReplacesList ==
    [][\A id \in Contacts :
          fetches'[id] < fetches[id] =>
          \A data \in Snapshots[id] :
          FetchSucceed(id, data)
          => /\ messages' = data
             /\ loading' = FALSE
             /\ \A i \in 1..Len(messages') :
                    messages'[i].from = id \/ messages'[i].to = id
             /\ \A i \in 1..(Len(messages') - 1) :
                    messages'[i].created_at[2] <= messages'[i + 1].created_at[2]]_vars

\* C6 witness: the list is a two-row snapshot of the active conversation whose
\* later row has the smaller identifier.
SnapshotShown ==
    /\ contactId = Contact555
    /\ ~loading
    /\ Len(messages) = 2
    /\ messages[1].id = 2 /\ messages[2].id = 1
    /\ messages[1].created_at[2] < messages[2].created_at[2]
    /\ messages[1].status = NoStatus /\ messages[2].status = NoStatus

\* C7: a fetch that fails leaves the list as it was, sets a non-null error and
\* clears loading.
FailureKeepsList ==
    [][\A id \in Contacts : \A e \in Failures :
          FetchFail(id, e)
          => (messages' = messages /\ error' # NullS /\ loading' = FALSE)]_vars

\* C7 witness: an error is recorded and the list still holds two entries.
FailedWithListKept ==
    /\ error # NullS
    /\ ~loading
    /\ Len(messages) = 2

\* C8: every change of loading from false to true is a select step.
OnlySelectSetsLoading ==
    [][(~loading /\ loading') => \E id \in Contacts : SetContactId(id)]_vars

\* C8 witness: a background fetch of the shown conversation is awaited, the
\* list is shown and loading is false.
BackgroundFetchPending ==
    /\ contactId = Contact555
    /\ fetches[Contact555] > 0
    /\ ~loading
    /\ Len(messages) > 0

\* The call submitOptimistic(p) at clock value t finds the message in the list.
AlreadyListed(p, t) ==
    \E i \in 1..Len(messages) :
        \/ messages[i].id = (IF p.id = 0 THEN t ELSE p.id)
        \/ (p.mid \notin {NullS, ""} /\ messages[i].mid = p.mid)

\* C9: submitOptimistic, when the message is not in the list, appends exactly
\* one entry and returns it: status 'sending', type 'text' unless supplied,
\* the supplied identifier or else the clock value, the supplied creation
\* timestamp or else the current time, the other fields as supplied.
OptimisticAppends ==
    [][fetches' = fetches =>
       \A p \in Partials : \A t \in Clock :
          (~AlreadyListed(p, t) /\ AddOptimisticMessage(p, t))
          => /\ Len(messages') = Len(messages) + 1
             /\ SubSeq(messages', 1, Len(messages)) = messages
             /\ messages'[Len(messages')] = AddOptimisticReturn(p, t)
             /\ LET e == messages'[Len(messages')]
                IN /\ e.status = "sending"
                   /\ e.type = (IF p.type = NullS THEN "text" ELSE p.type)
                   /\ e.id = (IF p.id = 0 THEN t ELSE p.id)
                   /\ e.created_at = (IF p.created_at = NoTime
                                      THEN ToISOString(t) ELSE p.created_at)
                   /\ e.mid = p.mid /\ e.from = p.from /\ e.to = p.to
                   /\ e.text = p.text]_vars

\* C9 witness: an entry with a generated identifier and the default type was
\* appended behind an entry that is not optimistic.
OptimisticAppended ==
    /\ Len(messages) = 2
    /\ messages[1].status = "sent"
    /\ messages[2].status = "sending"
    /\ messages[2].id \in Clock
    /\ messages[2].type = "text"

\* C10: submitOptimistic, when the message is in the list already (same
\* identifier, or same non-empty external id), leaves the list as it is and
\* still returns the synthesized record; a second call with the same
\* message changes nothing the first did not.
OptimisticIdempotent ==
    /\ [][fetches' = fetches =>
          \A p \in Partials : \A t \in Clock :
            (AlreadyListed(p, t) /\ AddOptimisticMessage(p, t))
            => /\ messages' = messages
               /\ AddOptimisticReturn(p, t).status = "sending"
               /\ AddOptimisticReturn(p, t).id = (IF p.id = 0 THEN t ELSE p.id)
               /\ AddOptimisticReturn(p, t).mid = p.mid]_vars
    /\ [](\A p \in Partials : \A t \in Clock :
            LET once == OptimisticUpdate(messages, NewMsg(p, t))
            IN OptimisticUpdate(once, NewMsg(p, t)) = once)

\* C10 witness: a confirmed entry with external id "a" is listed next to
\* another entry; a submit with that external id and a new identifier would
\* be a duplicate.
DuplicateSubmitPossible ==
    /\ Len(messages) = 2
    /\ messages[1].mid = "a"
    /\ messages[1].status = "sent"
    /\ messages[1].id \notin Clock \cup {1}

\* C11: the realtime channel is created at most once: a creation happens only
\* when sharedChannel is null, and once set sharedChannel never changes (it is
\* neither unsubscribed nor replaced), whatever mounts, unmounts and
\* conversation switches happen.
SingletonChannel ==
    /\ [](channels <= 1 /\ (channels = 1 <=> sharedChannel # NoInstance))
    /\ [][channels' # channels
            => (sharedChannel = NoInstance /\ channels' = channels + 1)]_vars
    /\ [][sharedChannel # NoInstance => sharedChannel' = sharedChannel]_vars

\* C11 witness: the instance that created the channel has unmounted after a
\* conversation was selected, a second instance is mounted, and the channel is
\* still the first one.
SecondMountKeepsChannel ==
    /\ mounted = {2}
    /\ contactId \in Contacts
    /\ sharedChannel = Owner
    /\ channels = 1

\* C12: each recovery trigger (document visible, network online, safety poll,
\* channel status 'SUBSCRIBED') issues one fetch for the conversation that is
\* active when it fires; a visibility change to hidden changes nothing.
TriggersFetchActive ==
    /\ [][\A c \in Contacts :
            /\ (contactId = c /\ OnVisibilityChange("visible"))
               => (fetches'[c] = fetches[c] + 1
                   /\ \A d \in Contacts \ {c} : fetches'[d] = fetches[d])
            /\ (contactId = c /\ OnOnline)
               => (fetches'[c] = fetches[c] + 1
                   /\ \A d \in Contacts \ {c} : fetches'[d] = fetches[d])
            /\ (contactId = c /\ SafetyPoll)
               => (fetches'[c] = fetches[c] + 1
                   /\ \A d \in Contacts \ {c} : fetches'[d] = fetches[d])
            /\ (contactId = c /\ OnChannelStatus("SUBSCRIBED"))
               => (fetches'[c] = fetches[c] + 1
                   /\ \A d \in Contacts \ {c} : fetches'[d] = fetches[d])]_vars
    /\ [](~ENABLED <<OnVisibilityChange("hidden")>>_vars)

\* C12 witness: 555 was selected, then 777; the fetch of 555 is still awaited,
\* the fetch that select(777) issued has completed, and a trigger has issued a
\* second fetch for 777 (loading stayed false).
TriggerAfterSwitch ==
    /\ contactId = Contact777
    /\ ~loading
    /\ fetches[Contact555] = 1
    /\ fetches[Contact777] = 1

\* C13: a fetch failure disables no recovery trigger: whatever has failed, with
\* a conversation active every trigger can fire and issue a query (the model
\* caps the queries awaited at once), and, the safety poll being fair, a
\* recorded failure is always followed by a new fetch for the active
\* conversation (only the start of a fetch clears error) unless the
\* conversation is closed first.
FailureKeepsRecovery ==
    /\ []((contactId \in Contacts /\ InFlight < MaxInflight)
           => /\ ENABLED <<SafetyPoll>>_vars
              /\ ENABLED <<OnOnline>>_vars
              /\ ENABLED <<OnVisibilityChange("visible")>>_vars
              /\ ENABLED <<OnChannelStatus("SUBSCRIBED")>>_vars)
    /\ (error # NullS /\ contactId \in Contacts /\ InFlight < MaxInflight)
          ~> (error = NullS \/ contactId \notin Contacts)

\* C13 witness: a fetch of the active conversation has failed, nothing is
\* awaited, and the list shown is the one from before the failure.
FailedAndIdle ==
    /\ error # NullS
    /\ contactId \in Contacts
    /\ InFlight = 0
    /\ Len(messages) > 0

\* The conversation that owns a message: the sender when it is purely numeric,
\* otherwise the recipient.
OwningConversation(m) ==
    IF m.from \notin {NullParty, EmptyParty} /\ \A i \in 1..Len(m.from) : m.from[i] \in Digits
    THEN m.from ELSE m.to

\* The list shows the stored row r, as a fetch or as an event delivered it.
Shows(r) ==
    \E k \in 1..Len(messages) :
        messages[k] = r \/ messages[k] = [r EXCEPT !.status = "sent"]

\* C14: an INSERT, UPDATE or DELETE event of a message whose owning
\* conversation is not the active one leaves the list unchanged.  (A DELETE
\* event carries the identifier only; it is the event of the stored row with
\* that identifier.)
EventsOfOthersIgnored ==
    [][\A r \in Rows :
          (contactId \in Contacts /\ OwningConversation(r) # contactId)
          => /\ RealtimeInsert(r) => messages' = messages
             /\ RealtimeUpdate(r) => messages' = messages
             /\ (Shows(r) /\ RealtimeDelete(r.id)) => messages' = messages]_vars

\* C15: while no conversation is active (contactIdRef holds null or the empty
\* string) every realtime event leaves the list, loading and error unchanged.
IdleIgnoresEvents ==
    [][(contactId \in {NullParty, EmptyParty})
       => /\ \A r \in Rows :
                (RealtimeInsert(r) \/ RealtimeUpdate(r))
                => UNCHANGED <<messages, loading, error>>
          /\ \A id \in DeleteIds :
                RealtimeDelete(id) => UNCHANGED <<messages, loading, error>>]_vars

\* C15 witness: no conversation is active and the list holds two rows that a
\* late fetch delivered, which events could match.
IdleWithRows ==
    /\ contactId = NullParty
    /\ Len(messages) = 2
    /\ messages[1].status = NoStatus
    /\ messages[1].id \in DeleteIds

\* C16: an INSERT event of the active conversation replaces the first entry
\* that has its identifier or its non-empty external id by the event's
\* message with status 'sent', every other position and the length staying as
\* they were; when there is no such entry it appends the message with status
\* 'sent' behind the unchanged list.
InsertReplacesOrAppends ==
    [][(contactId \in Contacts /\ fetches' = fetches /\ messages' # messages) =>
       \A r \in Rows :
          (OwningConversation(r) = contactId /\ RealtimeInsert(r))
          => LET hits == {k \in 1..Len(messages) : EventIsFor(r, messages[k])}
                 sent == [r EXCEPT !.status = "sent"]
             IN IF hits # {}
                THEN /\ Len(messages') = Len(messages)
                     /\ \A k \in 1..Len(messages) :
                            messages'[k] = IF k \in hits /\ \A j \in hits : k <= j
                                           THEN sent ELSE messages[k]
                ELSE /\ Len(messages') = Len(messages) + 1
                     /\ messages'[Len(messages')] = sent
                     /\ \A k \in 1..Len(messages) : messages'[k] = messages[k]]_vars

\* C16 witness: an event with external id "a" replaced the first of two
\* entries in place; the second, an optimistic entry, is where it was.
InsertedInPlace ==
    /\ contactId = Contact555
    /\ Len(messages) = 2
    /\ messages[1].status = "sent" /\ messages[1].mid = "a"
    /\ messages[2].status = "sending" /\ messages[2].mid = NullS

\* C17: an UPDATE event of the active conversation replaces in place the
\* entries that have its identifier and nothing else (no entry is added, the
\* external id matches nothing); a DELETE event removes the entries that have
\* its identifier, the others keeping their content and order; with no such
\* entry either leaves the list as it is.
UpdateDeleteById ==
    [][(contactId \in Contacts /\ fetches' = fetches /\ messages' # messages) =>
       /\ \A r \in Rows :
             (OwningConversation(r) = contactId /\ RealtimeUpdate(r))
             => /\ Len(messages') = Len(messages)
                /\ \E k \in 1..Len(messages) : messages[k].id = r.id
                /\ \A k \in 1..Len(messages) :
                       messages'[k] = IF messages[k].id = r.id
                                      THEN [r EXCEPT !.status = "sent"]
                                      ELSE messages[k]
       /\ \A id \in DeleteIds :
             RealtimeDelete(id)
             => /\ \E k \in 1..Len(messages) : messages[k].id = id
                /\ messages' = SelectSeq(messages, LAMBDA m : m.id # id)]_vars

\* C17 witness: of two fetched rows of conversation 777 the first was updated
\* in place; the second, which alone has an external id, is untouched.
UpdatedInPlace ==
    /\ contactId = Contact777
    /\ Len(messages) = 2
    /\ messages[1].status = "sent" /\ messages[1].mid = NullS
    /\ messages[2].status = NoStatus /\ messages[2].mid = "a"

\* C18: the handler of the one channel filters by the conversation that is
\* active when the event arrives, whatever was active before: an INSERT owned
\* by the active conversation is applied (it changes the list unless the
\* message is shown already, and its message is in the list afterwards), an
\* INSERT owned by another conversation is ignored.  The channel was created
\* while no conversation was active and is never recreated (C11).
HandlerReadsCurrentId ==
    /\ [](\A r \in Rows :
            ( /\ contactId \in Contacts
              /\ OwningConversation(r) = contactId
              /\ ~Shows(r)
              /\ Len(messages) < MaxLen )
            => ENABLED <<RealtimeInsert(r)>>_vars)
    /\ [][(contactId \in Contacts /\ fetches' = fetches /\ messages' # messages) =>
           \A r \in Rows :
              RealtimeInsert(r)
              => /\ OwningConversation(r) = contactId
                 /\ \E k \in 1..Len(messages') :
                        messages'[k] = [r EXCEPT !.status = "sent"]]_vars

\* C18 witness: 555 was selected and then 777 (the fetch of 555 is still
\* awaited); an INSERT owned by 777 has been applied to the list.
InsertAfterSwitch ==
    /\ contactId = Contact777
    /\ fetches[Contact555] > 0
    /\ Len(messages) = 1
    /\ messages[1].status = "sent"
    /\ OwningConversation(messages[1]) = Contact777

\* How many entries of the list s have the identifier id.
Occurrences(s, id) == Cardinality({i \in 1..Len(s) : s[i].id = id})

\* C19: a fetch of the active conversation and an INSERT event of a message
\* of that conversation may be processed in either order, and afterwards the
\* list holds the message exactly once.  Event first: while loading is true
\* and one fetch is awaited, that fetch is the one select issued when it
\* cleared the list, so every 'sent' entry arrived while it was in flight;
\* when its answer is processed each such message is in the list once.
\* Answer first: an INSERT processed after the answer, matching at most one
\* entry, leaves its message in the list once.
RaceKeepsMessage ==
    [][ /\ \A c \in Contacts :
             (contactId = c /\ loading /\ fetches[c] = 1 /\ fetches'[c] = 0)
             => \A data \in Snapshots[c] :
                   FetchSucceed(c, data)
                   => \A k \in 1..Len(messages) :
                         ( /\ messages[k].status = "sent"
                           /\ OwningConversation(messages[k]) = c )
                         => Occurrences(messages', messages[k].id) = 1
        /\ (contactId \in Contacts /\ ~loading /\ fetches' = fetches)
           => \A r \in Rows :
                 ( /\ OwningConversation(r) = contactId
                   /\ Cardinality({k \in 1..Len(messages) : EventIsFor(r, messages[k])}) <= 1
                   /\ RealtimeInsert(r) )
                 => Occurrences(messages', r.id) = 1 ]_vars

\* C20: while a conversation is active, every entry of the list that a fetch
\* delivered (a row as the store returns it, with no status) has the active
\* conversation as its sender or its recipient, also after a fetch issued
\* for the conversation selected before completes late.
SnapshotEntriesOfActive ==
    contactId \in Contacts
    => \A k \in 1..Len(messages) :
          messages[k].status = NoStatus
          => (messages[k].from = contactId \/ messages[k].to = contactId)

\* C21: with a conversation active, an optimistic entry (status 'sending')
\* is still in the list after every step, except a realtime INSERT or UPDATE
\* for it (same identifier or external id) that puts the event's message
\* with status 'sent' in the list, a DELETE event for its identifier, or a
\* select; in particular the answer to a background fetch that does not hold
\* the message leaves the entry in the list.
OptimisticStaysUntilConfirmed ==
    [][\A k \in 1..Len(messages) :
          (contactId \in Contacts /\ messages[k].status = "sending")
          => \/ \E j \in 1..Len(messages') : messages'[j] = messages[k]
             \/ \E r \in Rows :
                   /\ EventIsFor(r, messages[k])
                   /\ RealtimeInsert(r) \/ RealtimeUpdate(r)
                   /\ \E j \in 1..Len(messages') :
                          messages'[j] = [r EXCEPT !.status = "sent"]
             \/ RealtimeDelete(messages[k].id)
             \/ \E id \in SelectInputs : SetContactId(id)]_vars

\* C22: the realtime filter agrees with the filter of the fetch query: with
\* conversation c active, an INSERT event for a row the query for c returns
\* (sender c or recipient c) is applied: unless the list shows the row
\* already (or is at the length the model lets it grow to), the event changes
\* the list.  Such a row is one whose sender is a numeric identifier other
\* than c and whose recipient is c.
InsertFilterAgreesWithFetch ==
    \A r \in Rows :
        ( /\ contactId \in Contacts
          /\ (r.from = contactId \/ r.to = contactId)
          /\ ~Shows(r)
          /\ Len(messages) < MaxLen )
        => ENABLED <<RealtimeInsert(r)>>_vars

\* C23: error reflects the fetch that completed last: after a step in which
\* a fetch of the active conversation succeeds, error is null, also when
\* another fetch, started later, has failed in between.  (A completion that
\* changes the list is a success: a failure leaves the list as it is.)
ErrorOfLastCompletion ==
    [][\A c \in Contacts :
          (contactId = c /\ fetches'[c] < fetches[c] /\ messages' # messages)
          => error' = NullS]_vars

\* The contact id and the list of provider instance i.
ContactOf(i) == IF i = Owner THEN contactId ELSE peers[i].contactId
ListOf(i) == IF i = Owner THEN messages ELSE peers[i].messages

\* C24: events reach the mounted engine.  Once the instance that created the
\* channel has unmounted and another is mounted, or while two are mounted,
\* (a) for every mounted instance with an active conversation, the arrival
\* of an INSERT event owned by that conversation whose message the
\* instance's list does not hold changes that list, and (b) fetchRef, which
\* the 'SUBSCRIBED' callback calls, is the fetch of a mounted instance.
EventsReachMounted ==
    ((sharedChannel \notin mounted /\ mounted # {}) \/ Cardinality(mounted) >= 2)
    => /\ \A i \in mounted : \A r \in Rows :
             ( /\ ContactOf(i) \in Contacts
               /\ OwningConversation(r) = ContactOf(i)
               /\ \A k \in 1..Len(ListOf(i)) : ~EventIsFor(r, ListOf(i)[k])
               /\ Len(ListOf(i)) < MaxLen )
             => ENABLED <<RealtimeInsert(r)>>_(ListOf(i))
       /\ fetchRef \in mounted

\* The list equals the store's snapshot of the active conversation, entry by
\* entry; the status an event gave an entry is not part of the stored row.
StoreShown ==
    /\ Len(messages) = Len(store)
    /\ \A k \in 1..Len(store) : [messages[k] EXCEPT !.status = NoStatus] = store[k]

\* C25: once the rows of the active conversation have stopped changing, no
\* select or submit occurs any more and fetches succeed, then, the safety
\* poll and the completion of awaited queries being fair, the list
\* eventually equals the store's snapshot of the active conversation and
\* stays equal to it.
ConvergesToStore == <>[](settled => StoreShown)

\* C25 witness: the store settled with two rows while the list was shown
\* with another content; every query sent before has been answered, the late
\* event has been delivered, and the list is the store's snapshot.
Converged ==
    /\ settled
    /\ Len(store) = 2
    /\ StoreShown
    /\ InFlight = 0
    /\ late = 0
    /\ messages[2].status = "sent"

====
